---- MODULE Spec2Model ----
(***************************************************************************)
(* A model of the single-header INI parser (src/ini_parser.h): the line    *)
(* classifier parseLine, the document builder ini_initialize with its      *)
(* heap of section and key/value nodes, the teardown ini_cleanup and the   *)
(* queries ini_hasSection, ini_hasKey, ini_hasValue and ini_getValue, and   *)
(* the stream dispatcher ini_parse_stream with the caller's handler.       *)
(*                                                                         *)
(* Characters are one-character strings, C strings are sequences of        *)
(* characters without their terminator, pointers are heap addresses.       *)
(***************************************************************************)
EXTENDS Integers, Sequences, FiniteSets, TLC

VARIABLES
    content,            \* the caller's buffer (argument of ini_initialize)
    ctx,                \* ini_context_t: [content, sections], two pointers
    heap,               \* the blocks calloc has returned, by address
    freed,              \* the calls of free(), in order: [addr, by], by = 0
                        \* inside ini_initialize, n in the caller's n-th ini_cleanup
    pc,                 \* "idle", "scan" (inside ini_initialize), "done", "fault"
    ret,                \* what ini_initialize returned (read when pc = "done")
    ptr,                \* ini_initialize: ptr, as an index into ctx->content
    currentSection,     \* ini_initialize: currentSection
    has_valid_entries,  \* ini_initialize: has_valid_entries
    lines,              \* history: the logical lines scanned, as classified
    oom,                \* history: calloc has returned NULL
    oob,                \* history: line[] was written at an index >= its size
    cleanups,           \* history: ini_cleanup calls made by the caller
    q,                  \* the last query made by the caller, with its result
    handler,            \* ini_parse_stream: the handler argument
    stream_pc,          \* "idle", "scan" (inside ini_parse_stream), "done"
    stream_ret,         \* what ini_parse_stream returned (read when "done")
    stream_ptr,         \* ini_parse_stream: ptr, as an index into content
    current_section,    \* ini_parse_stream: current_section
    events,             \* history: the calls of handler, with what it answered
    stream_lines,       \* history: what ini_parse_stream copied into line[]
    lf_build,           \* the caller's record of the build of the buffer as
                        \* it was before its line endings were converted
    parsed              \* the last call of parseLine on its own, with its result

buildVars == <<content, ctx, heap, freed, pc, ret, ptr, currentSection,
               has_valid_entries, lines, oom, oob, cleanups, q>>

streamVars == <<handler, stream_pc, stream_ret, stream_ptr, current_section,
                events, stream_lines>>

vars == <<buildVars, streamVars, lf_build, parsed>>

----------------------------------------------------------------------------
(* Bounds of the model.                                                    *)

\* INI_MAX_LINE_LENGTH is a compile-time option (#ifndef ... #define ... 256):
\* the model is built with a small value so that lines reach it.
INI_MAX_LINE_LENGTH == 8
\* Buffers are concatenations of at most MaxPieces fragments.
MaxPieces == 3
\* The caller calls ini_cleanup at most MaxCleanups times in a row.
MaxCleanups == 2
\* Queried buffers are concatenations of at most MaxQueryPieces fragments.
MaxQueryPieces == 3
\* ini_getValue is given buffers of 0 .. MaxValueBuffer bytes.
MaxValueBuffer == 3
\* Streamed buffers are concatenations of at most MaxStreamPieces fragments.
MaxStreamPieces == 2
\* Buffers built under both line endings are made of at most MaxLFPieces fragments.
MaxLFPieces == 2
\* parseLine is given every line of at most MaxLineChars characters.
MaxLineChars == 4

----------------------------------------------------------------------------
(* Characters and C strings.                                               *)

NUL == "NUL"                       \* the byte '\0'
NULL == 0                          \* the null pointer
WILD == -1                         \* an indeterminate (never assigned) pointer

Min(a, b) == IF a < b THEN a ELSE b

Range(s) == {s[i] : i \in DOMAIN s}

\* s[i] of a C string held without its terminator: the terminator follows it.
At(s, i) == IF i \in DOMAIN s THEN s[i] ELSE NUL

\* The C string an array of bytes holds: the bytes before the first NUL.
RECURSIVE CStrLen(_, _)
CStrLen(buf, n) ==
    IF n < Len(buf) /\ buf[n + 1] # NUL THEN CStrLen(buf, n + 1) ELSE n

CStr(buf) == SubSeq(buf, 1, CStrLen(buf, 0))

\* isspace in the "C" locale; '\v', the sixth such byte, is in no buffer here.
isspace(c) == c \in {" ", "\t", "\n", "\r", "\f"}

Upper == <<"A", "B", "C", "D", "E", "F", "G", "H", "I", "J", "K", "L", "M",
           "N", "O", "P", "Q", "R", "S", "T", "U", "V", "W", "X", "Y", "Z">>
Lower == <<"a", "b", "c", "d", "e", "f", "g", "h", "i", "j", "k", "l", "m",
           "n", "o", "p", "q", "r", "s", "t", "u", "v", "w", "x", "y", "z">>

tolower(c) ==
    IF c \in Range(Upper)
    THEN Lower[CHOOSE i \in DOMAIN Upper : Upper[i] = c]
    ELSE c

strcasecmp_eq(x, y) ==
    /\ Len(x) = Len(y)
    /\ \A i \in DOMAIN x : tolower(x[i]) = tolower(y[i])

\* Mutant: STRCOMPARE is strcmp, as under INI_ENABLE_CASE_SENSITIVITY.
STRCOMPARE_eq_CaseSensitive(x, y) == x = y

\* STRCOMPARE(x, y) == 0 in the default build (INI_ENABLE_CASE_SENSITIVITY unset).
STRCOMPARE_eq(x, y) == strcasecmp_eq(x, y)

\* strncpy(dst, src, n) followed by reading dst as a C string: at most n bytes.
strncpy(src, n) == SubSeq(src, 1, Min(Len(src), n))

----------------------------------------------------------------------------
(* trimWhitespace and parseLine.                                           *)

RECURSIVE SkipSpaces(_, _)
SkipSpaces(s, i) == IF isspace(At(s, i)) THEN SkipSpaces(s, i + 1) ELSE i

RECURSIVE TrimEnd(_, _, _)
TrimEnd(s, start, end) ==
    IF end > start /\ isspace(At(s, end)) THEN TrimEnd(s, start, end - 1) ELSE end

\* Mutant: only the leading whitespace is removed.
trimWhitespace_LeadingOnly(str) ==
    SubSeq(str, SkipSpaces(str, 1), Len(str))

trimWhitespace(str) ==
    IF str = <<>> THEN str
    ELSE LET start == SkipSpaces(str, 1)
             end   == TrimEnd(str, start, Len(str))
             len   == IF end >= start THEN end - start + 1 ELSE 0
         IN  SubSeq(str, start, start + len - 1)

\* Mutant: a ':' does not stop the scan.
RECURSIVE ScanTo_PastColon(_, _, _)
ScanTo_PastColon(s, i, stops) ==
    IF At(s, i) = NUL \/ At(s, i) \in stops \ {":"} THEN i
    ELSE ScanTo_PastColon(s, i + 1, stops)

\* while(*line && *line is none of stops) line++
RECURSIVE ScanTo(_, _, _)
ScanTo(s, i, stops) ==
    IF At(s, i) = NUL \/ At(s, i) \in stops THEN i ELSE ScanTo(s, i + 1, stops)

INI_LINE_EMPTY     == "INI_LINE_EMPTY"
INI_LINE_SECTION   == "INI_LINE_SECTION"
INI_LINE_KEY_VALUE == "INI_LINE_KEY_VALUE"
INI_LINE_COMMENT   == "INI_LINE_COMMENT"
INI_LINE_INVALID   == "INI_LINE_INVALID"

\* The out-parameters section, key, value are zero-filled by both callers.
Parsed(type, section, key, value) ==
    [type |-> type, section |-> section, key |-> key, value |-> value]

parseLine(buf) ==
    LET line == CStr(buf)
        p    == SkipSpaces(line, 1)
    IN
    IF At(line, p) = NUL THEN Parsed(INI_LINE_EMPTY, <<>>, <<>>, <<>>)
    ELSE IF At(line, p) \in {";", "#"} THEN Parsed(INI_LINE_COMMENT, <<>>, <<>>, <<>>)
    ELSE IF At(line, p) = "[" THEN
        LET start == p + 1
            e     == ScanTo(line, start, {"]", "\n"})
        IN  IF At(line, e) = "]"
            THEN LET len     == Min(e - start, INI_MAX_LINE_LENGTH - 1)
                     section == trimWhitespace(SubSeq(line, start, start + len - 1))
                 IN  IF section = <<>>
                     THEN Parsed(INI_LINE_INVALID, <<>>, <<>>, <<>>)
                     ELSE Parsed(INI_LINE_SECTION, section, <<>>, <<>>)
            ELSE Parsed(INI_LINE_INVALID, <<>>, <<>>, <<>>)
    ELSE
        LET keyStart == p
            e        == ScanTo(line, p, {"=", ":"})
        IN  IF At(line, e) = NUL
            THEN Parsed(INI_LINE_INVALID, <<>>, <<>>, <<>>)
            ELSE LET keyLen == Min(e - keyStart, INI_MAX_LINE_LENGTH - 1)
                     key    == trimWhitespace(SubSeq(line, keyStart, keyStart + keyLen - 1))
                 IN  IF key = <<>>
                     THEN Parsed(INI_LINE_INVALID, <<>>, <<>>, <<>>)
                     ELSE LET valueStart == SkipSpaces(line, e + 1)
                              ve         == ScanTo(line, valueStart, {"\r", "\n"})
                              valueLen   == Min(ve - valueStart, INI_MAX_LINE_LENGTH - 1)
                              value      == trimWhitespace(
                                  SubSeq(line, valueStart, valueStart + valueLen - 1))
                          IN  Parsed(INI_LINE_KEY_VALUE, <<>>, key, value)

----------------------------------------------------------------------------
(* The heap: calloc, free, and the two linked chains.                      *)

\* A block as calloc returns it: zero-filled.
ZeroBlock(kind) ==
    [kind |-> kind, bytes |-> <<>>, name |-> <<>>, key |-> <<>>, value |-> <<>>,
     keyValues |-> NULL, next |-> NULL]

\* An address calloc has returned and free() has not been given.
Live(h, f, a) == a \in DOMAIN h /\ a \notin {f[i].addr : i \in DOMAIN f}

\* The calls free(a) made for each a of fs in turn, by ini_cleanup call number by.
FreeCalls(fs, by) == [i \in DOMAIN fs |-> [addr |-> fs[i], by |-> by]]

\* while(last->next) last = last->next
RECURSIVE LastNode(_, _)
LastNode(h, a) == IF h[a].next = NULL THEN a ELSE LastNode(h, h[a].next)

\* Mutant: newSection is pushed at the head of ctx->sections.
LinkSection_AtHead(h, c, new) ==
    [heap |-> [h EXCEPT ![new].next = c.sections],
     ctx |-> [c EXCEPT !.sections = new]]

\* Lines 288-302: link newSection at the tail of ctx->sections.
LinkSection(h, c, new) ==
    IF c.sections = NULL
    THEN [heap |-> h, ctx |-> [c EXCEPT !.sections = new]]
    ELSE [heap |-> [h EXCEPT ![LastNode(h, c.sections)].next = new], ctx |-> c]

\* Lines 323-337: link newKv at the tail of currentSection->keyValues.
LinkKeyValue(h, cur, new) ==
    IF h[cur].keyValues = NULL
    THEN [h EXCEPT ![cur].keyValues = new]
    ELSE [h EXCEPT ![LastNode(h, h[cur].keyValues)].next = new]

\* The addresses ini_cleanup hands to free(), in order. A pointer that is no
\* block of the heap cannot be followed: the walk ends on it.
RECURSIVE KvFrees(_, _)
KvFrees(h, kv) ==
    IF kv = NULL THEN <<>>
    ELSE IF kv \notin DOMAIN h THEN <<kv>>
    ELSE <<kv>> \o KvFrees(h, h[kv].next)

RECURSIVE SectionFrees(_, _)
SectionFrees(h, section) ==
    IF section = NULL THEN <<>>
    ELSE IF section \notin DOMAIN h THEN <<section>>
    ELSE KvFrees(h, h[section].keyValues) \o <<section>>
             \o SectionFrees(h, h[section].next)

CleanupFrees(h, c) ==
    (IF c.content # NULL THEN <<c.content>> ELSE <<>>) \o SectionFrees(h, c.sections)

\* ini_cleanup(ctx): what it frees and the context it leaves.
ini_cleanup(h, c) ==
    [frees |-> CleanupFrees(h, c), ctx |-> [content |-> NULL, sections |-> NULL]]

\* free() of each address of fs in turn is defined: each is a live block.
RECURSIVE FreesDefined(_, _, _)
FreesDefined(h, f, fs) ==
    \/ fs = <<>>
    \/ /\ Live(h, f, Head(fs))
       /\ FreesDefined(h, Append(f, [addr |-> Head(fs), by |-> 0]), Tail(fs))

----------------------------------------------------------------------------
(* The caller's inputs.                                                    *)

RECURSIVE Rep(_, _)
Rep(c, n) == IF n = 0 THEN <<>> ELSE <<c>> \o Rep(c, n - 1)

Pieces ==
    { <<"[", "s", "]", "\n">>,
      <<" ", "[", " ", "t", " ", "]", " ", "\r", "\n">>,
      <<"k", "=", "v", "\n">>,
      <<"K", ":", "w", "=", "x", " ", ";">>,
      <<"j", " ", "=", " ", "\r", "\n">>,
      <<";", "c", "\n", "[", "s", "\n", "k", "=", "v", "\n", "[", "T", "]", "\n">>,
      <<"=", "v", "\n", " ", "\n", "#", "c", "\n">>,
      <<"[", " ", "]", "\r">>,
      <<NUL, "[", "s", "]", "\n">>,
      Rep("a", INI_MAX_LINE_LENGTH) \o <<";", "[", "u", "]", "\n">> }

RECURSIVE Concats(_, _)
Concats(P, n) ==
    IF n = 0 THEN {<<>>}
    ELSE LET shorter == Concats(P, n - 1)
         IN  shorter \cup {b \o p : b \in shorter, p \in P}

Buffers == Concats(Pieces, MaxPieces)

\* Fragments for the buffers that are queried: same-named sections, keys
\* repeated in another case, empty and blank values.
QueryPieces ==
    { <<"[", "s", "]", "\n", "k", "=", "v", "w", "\n">>,
      <<"[", "S", "]", "\n">>,
      <<"[", "t", "]", "\n">>,
      <<"K", " ", "=", " ", "x", "\n">>,
      <<"k", "=", "\n">>,
      <<"j", "=", " ", "\r", "\n">> }

QueryBuffers == Concats(QueryPieces, MaxQueryPieces)

\* The names and keys the caller asks for.
QuerySections == { <<"s">>, <<"S">>, <<"t">> }
QueryKeys == { <<"k">>, <<"K">>, <<"j">> }

\* An uninitialized byte of a caller's array.
Garbage == "?"

\* A caller's char array of n bytes, by index.
Array(n) == [i \in 0 .. n - 1 |-> Garbage]

\* A char * argument: a null pointer, or a pointer to an array of n bytes.
NullPointer == [null |-> TRUE, array |-> Array(0)]
PointerTo(n) == [null |-> FALSE, array |-> Array(n)]

NoQuery ==
    [op |-> "none", section |-> <<>>, key |-> <<>>, maxLen |-> 0,
     given |-> FALSE, ret |-> FALSE, buf |-> Array(0), written |-> {}]

NotParsed ==
    [called |-> FALSE, line |-> <<>>,
     result |-> Parsed(INI_LINE_EMPTY, <<>>, <<>>, <<>>)]

NoBuild == [made |-> FALSE, ret |-> FALSE, oom |-> FALSE, document |-> <<>>]

\* A context the caller zeroed ({0}, memset) or left uninitialized.
Contexts == { [content |-> NULL, sections |-> NULL],
              [content |-> WILD, sections |-> WILD] }

InitWith(buffers) ==
    /\ content \in buffers
    /\ ctx \in Contexts
    /\ heap = <<>>
    /\ freed = <<>>
    /\ pc = "idle"
    /\ ret = FALSE
    /\ ptr = 1
    /\ currentSection = NULL
    /\ has_valid_entries = FALSE
    /\ lines = <<>>
    /\ oom = FALSE
    /\ oob = FALSE
    /\ cleanups = 0
    /\ q = NoQuery
    /\ handler = NULL
    /\ stream_pc = "idle"
    /\ stream_ret = FALSE
    /\ stream_ptr = 1
    /\ current_section = <<>>
    /\ events = <<>>
    /\ stream_lines = <<>>
    /\ lf_build = NoBuild
    /\ parsed = NotParsed

Init == InitWith(Buffers)

InitQuery == InitWith(QueryBuffers)

----------------------------------------------------------------------------
(* ini_initialize.                                                         *)

\* Lines 229-249: the argument check, the copy of the buffer, the locals.
InitializeBegin ==
    /\ pc = "idle"
    /\ IF Len(content) = 0
       THEN /\ pc' = "done"
            /\ ret' = FALSE
            /\ UNCHANGED <<ctx, heap, oom>>
       ELSE \E allocated \in BOOLEAN :
            IF allocated
            THEN /\ heap' = Append(heap, [ZeroBlock("content") EXCEPT
                                              !.bytes = content \o <<NUL>>])
                 /\ ctx' = [content |-> Len(heap) + 1, sections |-> NULL]
                 /\ pc' = "scan"
                 /\ UNCHANGED <<ret, oom>>
            ELSE /\ ctx' = [content |-> NULL, sections |-> NULL]
                 /\ pc' = "done"
                 /\ ret' = FALSE
                 /\ oom' = TRUE
                 /\ UNCHANGED heap
    /\ ptr' = 1
    /\ currentSection' = NULL
    /\ has_valid_entries' = FALSE
    /\ UNCHANGED <<content, freed, lines, oob, cleanups, q>>
    /\ UNCHANGED <<streamVars, lf_build, parsed>>

\* Lines 256-260: the bytes of the logical line starting at start.
RECURSIVE LineLen(_, _, _)
LineLen(bytes, start, len) ==
    IF /\ At(bytes, start + len) \notin {NUL, "\n", "\r"}
       /\ len < INI_MAX_LINE_LENGTH
    THEN LineLen(bytes, start, len + 1)
    ELSE len

\* Lines 347-350: while(*ptr == '\r' || *ptr == '\n') ptr++
RECURSIVE SkipTerminators(_, _)
SkipTerminators(bytes, p) ==
    IF At(bytes, p) \in {"\r", "\n"} THEN SkipTerminators(bytes, p + 1) ELSE p

\* Mutant: the line is taken to end with a two-byte terminator.
NextLine_TwoBytes(bytes, p) ==
    SkipTerminators(bytes, IF At(bytes, p) = NUL THEN p
                           ELSE IF At(bytes, p + 1) = NUL THEN p + 1 ELSE p + 2)

\* Lines 342-350: step over the byte the line stopped at, then the terminators.
NextLine(bytes, p) ==
    SkipTerminators(bytes, IF At(bytes, p) # NUL THEN p + 1 ELSE p)

\* Lines 253-268: the line buffer after memcpy(line, start, len); line[len] = 0.
ScannedLine(bytes, start) ==
    LET scanned == LineLen(bytes, start, 0)
        len     == IF scanned > 0 /\ At(bytes, start + scanned - 1) = "\r"
                   THEN scanned - 1 ELSE scanned
    IN  [line |-> SubSeq(bytes, start, start + len - 1),
         terminatorIndex |-> len,
         ptr |-> start + scanned]

\* Line 307: a key/value line is attached only under a current section.
Attaches(type, cur) == type = INI_LINE_KEY_VALUE /\ cur # NULL

\* Mutant: the section branch forgets has_valid_entries = true.
ValidAfter_KeyValueOnly(valid, type, cur) ==
    valid \/ Attaches(type, cur)

\* Mutant: every line that is not blank counts as an entry.
ValidAfter_AnyLine(valid, type, cur) ==
    valid \/ type # INI_LINE_EMPTY

\* Lines 305 and 339: has_valid_entries after a line of this type.
ValidAfter(valid, type, cur) ==
    valid \/ type = INI_LINE_SECTION \/ Attaches(type, cur)

\* Lines 251-351: one iteration of while(*ptr).
ScanLine ==
    /\ pc = "scan"
    /\ LET bytes == heap[ctx.content].bytes
           s     == ScannedLine(bytes, ptr)
           r     == parseLine(s.line)
           over  == s.terminatorIndex >= INI_MAX_LINE_LENGTH
       IN
       /\ At(bytes, ptr) # NUL
       /\ \E survives \in BOOLEAN, allocated \in BOOLEAN :
          \* line[len] = '\0' past the end of line[] is undefined: the build
          \* either goes on with the line as copied or is corrupted.
          /\ over \/ survives
          /\ oob' = (oob \/ over)
          /\ IF ~survives
             THEN /\ pc' = "fault"
                  /\ allocated
                  /\ UNCHANGED <<ctx, heap, freed, ret, ptr, currentSection,
                                 has_valid_entries, lines, oom>>
             ELSE
             LET attach == Attaches(r.type, currentSection)
                 new    == Len(heap) + 1
                 valid  == ValidAfter(has_valid_entries, r.type, currentSection)
             IN
             /\ lines' = Append(lines, [text |-> s.line, type |-> r.type,
                                        section |-> r.section, key |-> r.key,
                                        value |-> r.value])
             /\ IF r.type = INI_LINE_SECTION /\ allocated
                THEN LET node == [ZeroBlock("section") EXCEPT
                                     !.name = strncpy(r.section, INI_MAX_LINE_LENGTH)]
                         l    == LinkSection(Append(heap, node), ctx, new)
                     IN  /\ heap' = l.heap
                         /\ ctx' = l.ctx
                         /\ currentSection' = new
                         /\ has_valid_entries' = valid
                         /\ ptr' = NextLine(bytes, s.ptr)
                         /\ UNCHANGED <<freed, pc, ret, oom>>
                ELSE IF attach /\ allocated
                THEN LET node == [ZeroBlock("keyvalue") EXCEPT
                                     !.key = strncpy(r.key, INI_MAX_LINE_LENGTH - 1),
                                     !.value = strncpy(r.value, INI_MAX_LINE_LENGTH - 1)]
                     IN  /\ heap' = LinkKeyValue(Append(heap, node), currentSection, new)
                         /\ has_valid_entries' = valid
                         /\ ptr' = NextLine(bytes, s.ptr)
                         /\ UNCHANGED <<ctx, freed, pc, ret, currentSection, oom>>
                ELSE IF r.type = INI_LINE_SECTION \/ attach
                THEN \* calloc returned NULL: ini_cleanup(ctx); return false
                     LET c == ini_cleanup(heap, ctx)
                     IN  /\ freed' = freed \o FreeCalls(c.frees, 0)
                         /\ ctx' = c.ctx
                         /\ pc' = IF FreesDefined(heap, freed, c.frees)
                                  THEN "done" ELSE "fault"
                         /\ ret' = FALSE
                         /\ oom' = TRUE
                         /\ UNCHANGED <<heap, ptr, currentSection, has_valid_entries>>
                ELSE /\ allocated
                     /\ ptr' = NextLine(bytes, s.ptr)
                     /\ has_valid_entries' = valid
                     /\ UNCHANGED <<ctx, heap, freed, pc, ret, currentSection, oom>>
    /\ UNCHANGED <<content, cleanups, q>>
    /\ UNCHANGED <<streamVars, lf_build, parsed>>

\* Lines 353-359: the loop has ended.
InitializeEnd ==
    /\ pc = "scan"
    /\ At(heap[ctx.content].bytes, ptr) = NUL
    /\ IF ~has_valid_entries
       THEN LET c == ini_cleanup(heap, ctx)
            IN  /\ freed' = freed \o FreeCalls(c.frees, 0)
                /\ ctx' = c.ctx
                /\ pc' = IF FreesDefined(heap, freed, c.frees) THEN "done" ELSE "fault"
                /\ ret' = FALSE
       ELSE /\ pc' = "done"
            /\ ret' = TRUE
            /\ UNCHANGED <<ctx, freed>>
    /\ UNCHANGED <<content, heap, ptr, currentSection, has_valid_entries,
                   lines, oom, oob, cleanups, q>>
    /\ UNCHANGED <<streamVars, lf_build, parsed>>

----------------------------------------------------------------------------
(* ini_cleanup, called by the owner of the context.                        *)

Cleanup ==
    /\ pc = "done"
    /\ cleanups < MaxCleanups
    /\ LET c == ini_cleanup(heap, ctx)
       IN  /\ freed' = freed \o FreeCalls(c.frees, cleanups + 1)
           /\ ctx' = c.ctx
           /\ pc' = IF FreesDefined(heap, freed, c.frees) THEN "done" ELSE "fault"
    /\ cleanups' = cleanups + 1
    /\ q' = NoQuery
    /\ UNCHANGED <<content, heap, ret, ptr, currentSection, has_valid_entries,
                   lines, oom, oob>>
    /\ UNCHANGED <<streamVars, lf_build, parsed>>

Next ==
    \/ InitializeBegin
    \/ ScanLine
    \/ InitializeEnd
    \/ Cleanup

Spec == Init /\ [][Next]_vars

----------------------------------------------------------------------------
(* The queries.                                                            *)

\* Lines 403-415: ini_hasSection's loop from current.
RECURSIVE HasSectionFrom(_, _, _)
HasSectionFrom(h, current, section) ==
    IF current = NULL THEN FALSE
    ELSE IF STRCOMPARE_eq(h[current].name, section) THEN TRUE
    ELSE HasSectionFrom(h, h[current].next, section)

ini_hasSection(h, c, section) == HasSectionFrom(h, c.sections, section)

\* Lines 431-443: ini_hasKey's loop over one section's pairs, from kv.
RECURSIVE HasKeyIn(_, _, _)
HasKeyIn(h, kv, key) ==
    IF kv = NULL THEN FALSE
    ELSE IF STRCOMPARE_eq(h[kv].key, key) THEN TRUE
    ELSE HasKeyIn(h, h[kv].next, key)

\* Mutant: a section that lacks the key does not end the search.
RECURSIVE HasKeyFrom_AnySection(_, _, _, _)
HasKeyFrom_AnySection(h, current, section, key) ==
    IF current = NULL THEN FALSE
    ELSE IF STRCOMPARE_eq(h[current].name, section)
              /\ HasKeyIn(h, h[current].keyValues, key)
         THEN TRUE
    ELSE HasKeyFrom_AnySection(h, h[current].next, section, key)

\* Lines 425-449: ini_hasKey's loop from current.
RECURSIVE HasKeyFrom(_, _, _, _)
HasKeyFrom(h, current, section, key) ==
    IF current = NULL THEN FALSE
    ELSE IF STRCOMPARE_eq(h[current].name, section)
         THEN HasKeyIn(h, h[current].keyValues, key)
    ELSE HasKeyFrom(h, h[current].next, section, key)

ini_hasKey(h, c, section, key) == HasKeyFrom(h, c.sections, section, key)

\* strncpy(dst, src, n) on the array dst: exactly n bytes are written, the
\* bytes of src and then '\0's.
StrncpyInto(dst, src, n) ==
    [i \in DOMAIN dst \cup (0 .. n - 1) |->
        IF i < n THEN (IF i < Len(src) THEN src[i + 1] ELSE NUL) ELSE dst[i]]

\* dst[i] = b
Poke(dst, i, b) == [j \in DOMAIN dst \cup {i} |-> IF j = i THEN b ELSE dst[j]]

\* Mutant: the terminator is put at value[maxLen].
StoreValue_TerminatorPastEnd(out, value, maxLen) ==
    [found |-> TRUE,
     buf |-> Poke(StrncpyInto(out.buf, value, maxLen), maxLen, NUL),
     written |-> out.written \cup (0 .. maxLen)]

\* Lines 479-481: strncpy(value, kv->value, maxLen); value[maxLen - 1] = 0;
\* found = true.
StoreValue(out, value, maxLen) ==
    [found |-> TRUE,
     buf |-> Poke(StrncpyInto(out.buf, value, maxLen), maxLen - 1, NUL),
     written |-> out.written \cup (0 .. maxLen - 1)]

\* Mutant: the loop stops at the first pair that matches.
RECURSIVE GetValueIn_FirstMatch(_, _, _, _, _)
GetValueIn_FirstMatch(h, kv, key, maxLen, out) ==
    IF kv = NULL THEN out
    ELSE IF STRCOMPARE_eq(h[kv].key, key) THEN StoreValue(out, h[kv].value, maxLen)
    ELSE GetValueIn_FirstMatch(h, h[kv].next, key, maxLen, out)

\* Lines 473-487: ini_getValue's loop over one section's pairs, from kv.
RECURSIVE GetValueIn(_, _, _, _, _)
GetValueIn(h, kv, key, maxLen, out) ==
    IF kv = NULL THEN out
    ELSE GetValueIn(h, h[kv].next, key, maxLen,
                    IF STRCOMPARE_eq(h[kv].key, key)
                    THEN StoreValue(out, h[kv].value, maxLen)
                    ELSE out)

\* Lines 466-493: ini_getValue's loop from current.
RECURSIVE GetValueFrom(_, _, _, _, _, _)
GetValueFrom(h, current, section, key, maxLen, out) ==
    IF current = NULL THEN [out EXCEPT !.found = FALSE]
    ELSE IF STRCOMPARE_eq(h[current].name, section)
         THEN GetValueIn(h, h[current].keyValues, key, maxLen, out)
    ELSE GetValueFrom(h, h[current].next, section, key, maxLen, out)

\* ini_getValue(ctx, section, key, value, maxLen): value is a null pointer
\* or points to the caller's array. The result: found, the array, the
\* indexes written.
ini_getValue(h, c, section, key, value, maxLen) ==
    IF value.null \/ maxLen = 0
    THEN [found |-> FALSE, buf |-> value.array, written |-> {}]
    ELSE GetValueFrom(h, c.sections, section, key, maxLen,
                      [found |-> FALSE, buf |-> value.array, written |-> {}])

\* Mutant: the value's first byte is not looked at.
ini_hasValue_Found(h, c, section, key) ==
    ini_getValue(h, c, section, key, PointerTo(INI_MAX_LINE_LENGTH),
                 INI_MAX_LINE_LENGTH).found

\* Lines 452-456: ini_hasValue.
ini_hasValue(h, c, section, key) ==
    LET r == ini_getValue(h, c, section, key, PointerTo(INI_MAX_LINE_LENGTH),
                          INI_MAX_LINE_LENGTH)
    IN  r.found /\ r.buf[0] # NUL

\* The queries are made on a built Document; they change nothing, so one
\* query per behaviour shows them all.
CanQuery == pc = "done" /\ ret /\ cleanups = 0 /\ q.op = "none"

HasSection ==
    /\ CanQuery
    /\ \E section \in QuerySections :
          q' = [NoQuery EXCEPT !.op = "hasSection", !.section = section,
                               !.ret = ini_hasSection(heap, ctx, section)]
    /\ UNCHANGED <<content, ctx, heap, freed, pc, ret, ptr, currentSection,
                   has_valid_entries, lines, oom, oob, cleanups>>
    /\ UNCHANGED <<streamVars, lf_build, parsed>>

HasKey ==
    /\ CanQuery
    /\ \E section \in QuerySections, key \in QueryKeys :
          q' = [NoQuery EXCEPT !.op = "hasKey", !.section = section, !.key = key,
                               !.ret = ini_hasKey(heap, ctx, section, key)]
    /\ UNCHANGED <<content, ctx, heap, freed, pc, ret, ptr, currentSection,
                   has_valid_entries, lines, oom, oob, cleanups>>
    /\ UNCHANGED <<streamVars, lf_build, parsed>>

HasValue ==
    /\ CanQuery
    /\ \E section \in QuerySections, key \in QueryKeys :
          q' = [NoQuery EXCEPT !.op = "hasValue", !.section = section, !.key = key,
                               !.ret = ini_hasValue(heap, ctx, section, key)]
    /\ UNCHANGED <<content, ctx, heap, freed, pc, ret, ptr, currentSection,
                   has_valid_entries, lines, oom, oob, cleanups>>
    /\ UNCHANGED <<streamVars, lf_build, parsed>>

GetValue ==
    /\ CanQuery
    /\ \E section \in QuerySections, key \in QueryKeys,
          maxLen \in 0 .. MaxValueBuffer, value \in BOOLEAN :
          LET r == ini_getValue(heap, ctx, section, key,
                                IF value THEN PointerTo(maxLen) ELSE NullPointer,
                                maxLen)
          IN  q' = [op |-> "getValue", section |-> section, key |-> key,
                    maxLen |-> maxLen, given |-> value, ret |-> r.found,
                    buf |-> r.buf, written |-> r.written]
    /\ UNCHANGED <<content, ctx, heap, freed, pc, ret, ptr, currentSection,
                   has_valid_entries, lines, oom, oob, cleanups>>
    /\ UNCHANGED <<streamVars, lf_build, parsed>>

NextQuery ==
    \/ InitializeBegin
    \/ ScanLine
    \/ InitializeEnd
    \/ Cleanup
    \/ HasSection
    \/ HasKey
    \/ HasValue
    \/ GetValue

SpecQuery == InitQuery /\ [][NextQuery]_vars

----------------------------------------------------------------------------
(* ini_parse_stream and the caller's handler.                              *)

INI_EVENT_SECTION   == "INI_EVENT_SECTION"
INI_EVENT_KEY_VALUE == "INI_EVENT_KEY_VALUE"
INI_EVENT_COMMENT   == "INI_EVENT_COMMENT"
INI_EVENT_ERROR     == "INI_EVENT_ERROR"

\* A const char * argument of the handler: NULL, or the C string it points to.
NullString == [null |-> TRUE, str |-> <<>>]
StringAt(buf) == [null |-> FALSE, str |-> CStr(buf)]

\* The address of the caller's handler function.
HANDLER == 1

\* What the caller passes as handler.
Handlers == {NULL, HANDLER}

\* Lines 513-516: while(ptr < end && *ptr != '\n' && *ptr != '\r') ptr++
RECURSIVE StreamLineEnd(_, _)
StreamLineEnd(bytes, p) ==
    IF p <= Len(bytes) /\ bytes[p] \notin {"\n", "\r"}
    THEN StreamLineEnd(bytes, p + 1)
    ELSE p

\* Lines 521-524: while(ptr < end && (*ptr == '\n' || *ptr == '\r')) ptr++
RECURSIVE StreamSkipTerminators(_, _)
StreamSkipTerminators(bytes, p) ==
    IF p <= Len(bytes) /\ bytes[p] \in {"\n", "\r"}
    THEN StreamSkipTerminators(bytes, p + 1)
    ELSE p

\* Lines 511-531: the line found at line_start, the line buffer after
\* memcpy(line, line_start, line_len); line[line_len] = 0, and ptr afterwards.
StreamScannedLine(bytes, line_start) ==
    LET stop     == StreamLineEnd(bytes, line_start)
        found    == stop - line_start
        line_len == Min(found, INI_MAX_LINE_LENGTH - 1)
    IN  [found |-> found,
         line |-> SubSeq(bytes, line_start, line_start + line_len - 1),
         terminatorIndex |-> line_len,
         ptr |-> StreamSkipTerminators(bytes, stop)]

\* Mutant: current_section is never assigned.
SectionAfter_Never(cur, r) == cur

\* Line 540: strncpy(current_section, section, INI_MAX_LINE_LENGTH), on a
\* SECTION line only.
SectionAfter(cur, r) ==
    IF r.type = INI_LINE_SECTION THEN strncpy(r.section, INI_MAX_LINE_LENGTH) ELSE cur

Event(type, section, key, value) ==
    [type |-> type, section |-> section, key |-> key, value |-> value]

\* Lines 537-575: the calls of handler the switch makes for a classified
\* line, none for an EMPTY one. cur is current_section after line 540.
HandlerCalls(r, line, cur) ==
    IF r.type = INI_LINE_SECTION
    THEN <<Event(INI_EVENT_SECTION, StringAt(cur), NullString, NullString)>>
    ELSE IF r.type = INI_LINE_KEY_VALUE
    THEN <<Event(INI_EVENT_KEY_VALUE, StringAt(cur), StringAt(r.key), StringAt(r.value))>>
    ELSE IF r.type = INI_LINE_COMMENT
    THEN <<Event(INI_EVENT_COMMENT, NullString, NullString, StringAt(line))>>
    ELSE IF r.type = INI_LINE_INVALID
    THEN <<Event(INI_EVENT_ERROR, NullString, NullString, StringAt(line))>>
    ELSE <<>>

\* Mutant: the answer to a COMMENT event is not looked at.
Returns_ExceptComment(type, answer) == ~answer /\ type # INI_EVENT_COMMENT

\* if(!handler(...)) return false, the same in the four cases of the switch.
Returns(type, answer) == ~answer

\* Lines 498-506: the argument check and the locals.
StreamBegin ==
    /\ stream_pc = "idle"
    /\ \E h \in Handlers :
          /\ handler' = h
          /\ IF h = NULL
             THEN stream_pc' = "done" /\ stream_ret' = FALSE
             ELSE stream_pc' = "scan" /\ UNCHANGED stream_ret
    /\ stream_ptr' = 1
    /\ current_section' = <<>>
    /\ UNCHANGED <<events, stream_lines>>
    /\ UNCHANGED <<buildVars, lf_build, parsed>>

\* Lines 508-577: one iteration of while(ptr < end), with the call of the
\* handler it makes and what the handler answers.
StreamLine ==
    /\ stream_pc = "scan"
    /\ stream_ptr <= Len(content)
    /\ LET s == StreamScannedLine(content, stream_ptr)
           r == parseLine(s.line)
           cur == SectionAfter(current_section, r)
           calls == HandlerCalls(r, s.line, cur)
       IN  /\ stream_ptr' = s.ptr
           /\ IF s.found > 0
              THEN /\ stream_lines' = Append(stream_lines,
                          [text |-> s.line, terminatorIndex |-> s.terminatorIndex,
                           type |-> r.type, section |-> r.section,
                           key |-> r.key, value |-> r.value])
                   /\ current_section' = cur
                   /\ IF calls = <<>>
                      THEN UNCHANGED <<stream_pc, stream_ret, events>>
                      ELSE \E answer \in BOOLEAN :
                           /\ events' = Append(events,
                                  [event |-> calls[1], answer |-> answer])
                           /\ IF Returns(calls[1].type, answer)
                              THEN stream_pc' = "done" /\ stream_ret' = FALSE
                              ELSE UNCHANGED <<stream_pc, stream_ret>>
              ELSE UNCHANGED <<stream_pc, stream_ret, current_section, events,
                               stream_lines>>
    /\ UNCHANGED handler
    /\ UNCHANGED <<buildVars, lf_build, parsed>>

\* Line 579: the loop has ended.
StreamEnd ==
    /\ stream_pc = "scan"
    /\ stream_ptr > Len(content)
    /\ stream_pc' = "done"
    /\ stream_ret' = TRUE
    /\ UNCHANGED <<handler, stream_ptr, current_section, events, stream_lines>>
    /\ UNCHANGED <<buildVars, lf_build, parsed>>

\* Buffers are concatenations of at most MaxStreamPieces fragments.
StreamPieces ==
    Pieces \cup { <<"\n", "\r">>,
                  <<"#", NUL, "c", "\n">>,
                  <<"k", "=", "v", "\n", " ", "\n", ";", "c", "\n", "x", "\n",
        "[", "t", "]", "\n", "j", ":", "w", "\n">> }

StreamBuffers == Concats(StreamPieces, MaxStreamPieces)

InitStream == InitWith(StreamBuffers) /\ ctx.content = NULL

\* The caller streams a buffer and builds a Document from the same buffer.
NextStream ==
    \/ StreamBegin
    \/ StreamLine
    \/ StreamEnd
    \/ InitializeBegin
    \/ ScanLine
    \/ InitializeEnd

SpecStream == InitStream /\ [][NextStream]_vars

----------------------------------------------------------------------------
(* The Document a context holds, read off the heap, and the Document the    *)
(* scanned lines call for.                                                  *)

RECURSIVE KeyValuesFrom(_, _)
KeyValuesFrom(h, kv) ==
    IF kv = NULL THEN <<>>
    ELSE <<[key |-> h[kv].key, value |-> h[kv].value]>>
             \o KeyValuesFrom(h, h[kv].next)

RECURSIVE SectionsFrom(_, _)
SectionsFrom(h, section) ==
    IF section = NULL THEN <<>>
    ELSE <<[name |-> h[section].name,
            keyValues |-> KeyValuesFrom(h, h[section].keyValues)]>>
             \o SectionsFrom(h, h[section].next)

Document == SectionsFrom(heap, ctx.sections)

\* The Document of a sequence of classified lines: a Section per SECTION line,
\* each KEY_VALUE line under the last SECTION line before it.
RECURSIVE LinesDocument(_)
LinesDocument(ls) ==
    IF ls = <<>> THEN <<>>
    ELSE LET before == LinesDocument(SubSeq(ls, 1, Len(ls) - 1))
             l      == ls[Len(ls)]
             n      == Len(before)
         IN  IF l.type = INI_LINE_SECTION
             THEN Append(before, [name |-> l.section, keyValues |-> <<>>])
             ELSE IF l.type = INI_LINE_KEY_VALUE /\ n > 0
             THEN [before EXCEPT ![n].keyValues =
                       Append(@, [key |-> l.key, value |-> l.value])]
             ELSE before

LineTypes == {lines[i].type : i \in DOMAIN lines}

Built == pc = "done" /\ ret /\ cleanups = 0

FreedAddrs == {freed[i].addr : i \in DOMAIN freed}

----------------------------------------------------------------------------
(* Claims.                                                                 *)

\* C1 as stated: a non-empty buffer with at least one section line or at
\* least one key/value line is built successfully (no allocation failing).
C1_BuildSucceedsOnAnyEntry ==
    (/\ pc = "done"
     /\ ~oom
     /\ Len(content) > 0
     /\ LineTypes \cap {INI_LINE_SECTION, INI_LINE_KEY_VALUE} # {})
    => ret = TRUE

\* C1 amended: whenever ini_initialize returns, no allocation having failed,
\* on a non-empty buffer in which it classified at least one logical line as
\* SECTION, it returns true.
C1_BuildSucceedsOnSection ==
    (/\ pc = "done"
     /\ ~oom
     /\ Len(content) > 0
     /\ INI_LINE_SECTION \in LineTypes)
    => ret = TRUE

\* A build that succeeded although its first line, a key/value line, had no
\* section to go to.
C1_Witness ==
    /\ pc = "done"
    /\ ~oom
    /\ ret = TRUE
    /\ Len(lines) >= 2
    /\ lines[1].type = INI_LINE_KEY_VALUE
    /\ lines[2].type = INI_LINE_SECTION

\* C2: a buffer that is empty, or whose logical lines are all EMPTY, COMMENT
\* or INVALID, is not built: ini_initialize returns false.
C2_BuildFailsWithoutEntries ==
    (/\ pc = "done"
     /\ \/ Len(content) = 0
        \/ /\ ~oom
           /\ LineTypes \subseteq {INI_LINE_EMPTY, INI_LINE_COMMENT, INI_LINE_INVALID})
    => ret = FALSE

\* A failed build of a buffer holding an invalid, an empty and a comment line.
C2_Witness ==
    /\ pc = "done"
    /\ ~oom
    /\ ret = FALSE
    /\ LineTypes = {INI_LINE_EMPTY, INI_LINE_COMMENT, INI_LINE_INVALID}

\* C3 as stated: after ini_initialize has returned, whatever the outcome, the
\* ini_cleanup calls free only blocks the build allocated, each at most once,
\* and every call after the first frees nothing.
C3_CleanupIdempotentAndSafe ==
    pc \in {"done", "fault"} =>
        /\ \A i \in DOMAIN freed : freed[i].addr \in DOMAIN heap
        /\ \A i, j \in DOMAIN freed : freed[i].addr = freed[j].addr => i = j
        /\ \A i \in DOMAIN freed : freed[i].by <= 1

\* C4 as stated: whenever ini_initialize has returned false, every block it
\* allocated has been freed and the context holds no sections.
C4_FailureReleasesEverything ==
    (pc = "done" /\ ret = FALSE /\ cleanups = 0) =>
        /\ DOMAIN heap \subseteq FreedAddrs
        /\ ctx.sections = NULL

\* C5: after a successful build the Document is a Section per SECTION line,
\* in order, each with the KEY_VALUE lines up to the next SECTION line, in
\* order; key/value lines before the first SECTION line and COMMENT, EMPTY
\* and INVALID lines leave no trace.
C5_DocumentFollowsLines ==
    Built => Document = LinesDocument(lines)

\* A built Document of two Sections whose source began with a key/value line
\* and has a comment or invalid line inside a section.
C5_Witness ==
    /\ Built
    /\ Len(Document) = 2
    /\ Document[1].keyValues # <<>>
    /\ lines[1].type = INI_LINE_KEY_VALUE
    /\ \E i, j, k \in DOMAIN lines :
          /\ i < j /\ j < k
          /\ lines[i].type = INI_LINE_SECTION
          /\ lines[j].type \in {INI_LINE_COMMENT, INI_LINE_INVALID}
          /\ lines[k].type = INI_LINE_KEY_VALUE

----------------------------------------------------------------------------
(* What a query is to answer, stated on the Document.                      *)

\* Two strings that differ at most in the case of ASCII letters.
SameButCase(x, y) ==
    /\ Len(x) = Len(y)
    /\ \A i \in DOMAIN x :
          \/ x[i] = y[i]
          \/ \E n \in DOMAIN Upper : {x[i], y[i]} = {Upper[n], Lower[n]}

\* The first Section of the Document with this name, 0 when there is none.
FirstSection(doc, section) ==
    LET named == {i \in DOMAIN doc : SameButCase(doc[i].name, section)}
    IN  IF named = {} THEN 0 ELSE CHOOSE i \in named : \A j \in named : i <= j

\* The pairs of a Section with this key.
Matches(sec, key) ==
    {i \in DOMAIN sec.keyValues : SameButCase(sec.keyValues[i].key, key)}

\* The value a lookup resolves to: that of the last pair with this key in the
\* first Section with this name.
Resolves(doc, section, key) ==
    FirstSection(doc, section) # 0
        /\ Matches(doc[FirstSection(doc, section)], key) # {}

Resolved(doc, section, key) ==
    LET sec == doc[FirstSection(doc, section)]
        ms  == Matches(sec, key)
    IN  sec.keyValues[CHOOSE i \in ms : \A j \in ms : j <= i].value

\* The C string an array holds, and whether it ends inside the array.
RECURSIVE ArrayStrLen(_, _)
ArrayStrLen(a, n) ==
    IF n \in DOMAIN a /\ a[n] # NUL THEN ArrayStrLen(a, n + 1) ELSE n

ArrayStr(a) == [i \in 1 .. ArrayStrLen(a, 0) |-> a[i - 1]]

Terminated(a) == ArrayStrLen(a, 0) \in DOMAIN a

Queried == pc = "done" /\ q.op # "none"

\* C6: among several pairs with the same key in a section, ini_getValue gives
\* the value of the last one appended, and ini_hasKey is true when any pair
\* matches.
C6_LastDuplicateWins ==
    /\ (Queried /\ q.op = "getValue" /\ q.given /\ q.maxLen > 0
           /\ FirstSection(Document, q.section) # 0) =>
          LET sec == Document[FirstSection(Document, q.section)]
              ms  == Matches(sec, q.key)
          IN  /\ q.ret = (ms # {})
              /\ q.ret => \E i \in ms :
                    /\ \A j \in ms : j <= i
                    /\ Len(sec.keyValues[i].value) < q.maxLen =>
                          ArrayStr(q.buf) = sec.keyValues[i].value
    /\ (Queried /\ q.op = "hasKey" /\ FirstSection(Document, q.section) # 0) =>
          q.ret = (Matches(Document[FirstSection(Document, q.section)], q.key) # {})

\* ini_getValue has answered with the second of two different values of a key.
C6_Witness ==
    /\ Queried /\ q.op = "getValue" /\ q.ret
    /\ LET sec == Document[FirstSection(Document, q.section)]
           ms  == Matches(sec, q.key)
       IN  \E i, j \in ms :
              /\ i < j
              /\ sec.keyValues[i].value # sec.keyValues[j].value
              /\ ArrayStr(q.buf) = sec.keyValues[j].value

\* C7: every SECTION line makes a Section of its own, same name or not, and
\* ini_hasKey, ini_getValue and ini_hasValue look only into the first Section
\* of the name asked for.
C7_FirstSameNamedSectionOnly ==
    /\ Built =>
          Len(Document) =
              Cardinality({i \in DOMAIN lines : lines[i].type = INI_LINE_SECTION})
    /\ (Queried /\ q.op \in {"hasKey", "hasValue", "getValue"} /\ q.ret) =>
          Resolves(Document, q.section, q.key)
    /\ (Queried /\ q.op = "hasKey" /\ ~q.ret) =>
          ~Resolves(Document, q.section, q.key)
    /\ (Queried /\ q.op = "getValue" /\ q.ret) =>
          \E i \in Matches(Document[FirstSection(Document, q.section)], q.key) :
             ArrayStr(q.buf) = strncpy(
                 Document[FirstSection(Document, q.section)].keyValues[i].value,
                 q.maxLen - 1)

\* ini_hasKey has answered false for a key that only a later Section of the
\* same name holds.
C7_Witness ==
    /\ Queried /\ q.op = "hasKey" /\ ~q.ret
    /\ \E i, j \in DOMAIN Document :
          /\ i < j
          /\ i = FirstSection(Document, q.section)
          /\ SameButCase(Document[j].name, q.section)
          /\ Matches(Document[j], q.key) # {}

\* C8: two queries whose section names and keys differ only in the case of
\* ASCII letters have the same result, and the same value.
C8_QueriesIgnoreCase ==
    Queried =>
        \A section \in QuerySections, key \in QueryKeys :
            (/\ SameButCase(section, q.section)
             /\ q.op = "hasSection" \/ SameButCase(key, q.key)) =>
            CASE q.op = "hasSection" -> q.ret = ini_hasSection(heap, ctx, section)
              [] q.op = "hasKey"     -> q.ret = ini_hasKey(heap, ctx, section, key)
              [] q.op = "hasValue"   -> q.ret = ini_hasValue(heap, ctx, section, key)
              [] q.op = "getValue"   ->
                    LET r == ini_getValue(heap, ctx, section, key,
                                 IF q.given THEN PointerTo(q.maxLen) ELSE NullPointer,
                                 q.maxLen)
                    IN  q.ret = r.found /\ q.buf = r.buf

\* A value found under a section name and a key both written in the other case.
C8_Witness ==
    /\ Queried /\ q.op = "getValue" /\ q.ret
    /\ ArrayStr(q.buf) # <<>>
    /\ Document[FirstSection(Document, q.section)].name # q.section
    /\ \A i \in DOMAIN Document[FirstSection(Document, q.section)].keyValues :
          Document[FirstSection(Document, q.section)].keyValues[i].key # q.key

\* C9: ini_getValue writes no byte at an index >= maxLen; on success the
\* buffer holds the first min(len, maxLen - 1) bytes of the resolved value and
\* a terminator; with maxLen = 0 or a null buffer it returns false and writes
\* nothing.
C9_GetValueStaysInBuffer ==
    (Queried /\ q.op = "getValue") =>
        /\ q.written \subseteq 0 .. q.maxLen - 1
        /\ DOMAIN q.buf \subseteq 0 .. q.maxLen - 1
        /\ (q.maxLen = 0 \/ ~q.given) => ~q.ret /\ q.written = {}
        /\ q.ret =>
              LET v == Resolved(Document, q.section, q.key)
              IN  /\ Resolves(Document, q.section, q.key)
                  /\ Terminated(q.buf)
                  /\ ArrayStr(q.buf) = SubSeq(v, 1, Min(Len(v), q.maxLen - 1))

\* A value of two bytes fetched into a buffer of two bytes: one byte of it.
C9_Witness ==
    /\ Queried /\ q.op = "getValue" /\ q.ret
    /\ q.maxLen = 2
    /\ Len(Resolved(Document, q.section, q.key)) = 2
    /\ Len(ArrayStr(q.buf)) = 1

\* A line of the form key, separator, blanks: the separator is the first '='
\* or ':' of the line, a key stands before it and only blanks follow it.
BlankValued(text) ==
    \E p \in DOMAIN text :
        /\ text[p] \in {"=", ":"}
        /\ \A i \in 1 .. p - 1 : text[i] \notin {"=", ":"}
        /\ \E i \in 1 .. p - 1 : ~isspace(text[i])
        /\ \A i \in 1 .. p - 1 :
              (\A j \in 1 .. i - 1 : isspace(text[j])) => text[i] \notin {"[", ";", "#"}
        /\ \A i \in p + 1 .. Len(text) : isspace(text[i])

\* C10: ini_hasValue is true exactly when the lookup resolves and the resolved
\* (last appended) value is not empty; a pair whose value was empty or blank
\* in the source is a key (ini_hasKey) without a value (ini_hasValue).
C10_HasValueIffNonEmpty ==
    /\ (Queried /\ q.op = "hasValue") =>
          q.ret = (Resolves(Document, q.section, q.key)
                      /\ Resolved(Document, q.section, q.key) # <<>>)
    /\ Built =>
          \A section \in QuerySections, key \in QueryKeys :
             (Resolves(Document, section, key)
                 /\ Resolved(Document, section, key) = <<>>) =>
                ini_hasKey(heap, ctx, section, key)
                    /\ ~ini_hasValue(heap, ctx, section, key)
    /\ \A i \in DOMAIN lines :
          BlankValued(lines[i].text) =>
             lines[i].type = INI_LINE_KEY_VALUE /\ lines[i].value = <<>>

\* ini_hasValue has answered false for a key whose line had a blank value.
C10_Witness ==
    /\ Queried /\ q.op = "hasValue" /\ ~q.ret
    /\ Resolves(Document, q.section, q.key)
    /\ \E i \in DOMAIN lines :
          /\ lines[i].type = INI_LINE_KEY_VALUE
          /\ SameButCase(lines[i].key, q.key)
          /\ BlankValued(lines[i].text)
          /\ lines[i].text[Len(lines[i].text)] = " "

----------------------------------------------------------------------------
(* Claims about ini_parse_stream.                                          *)

\* The calls of handler that were answered false.
Refusals == {i \in DOMAIN events : ~events[i].answer}

Streamed == stream_pc = "done" /\ handler # NULL

\* C11: when the handler answers false on its n-th call, ini_parse_stream
\* has returned false and that call is the last one: the handler has been
\* called n times, whatever follows the line in the buffer.
C11_AbortStopsStream ==
    \A n \in Refusals :
        /\ n = Len(events)
        /\ stream_pc = "done"
        /\ stream_ret = FALSE

\* The handler refused its second call while another section line was ahead.
C11_Witness ==
    /\ Refusals = {2}
    /\ stream_ptr <= Len(content)
    /\ parseLine(StreamScannedLine(content, stream_ptr).line).type = INI_LINE_SECTION

----------------------------------------------------------------------------
(* The line rules and the logical lines of a buffer, stated on their own.  *)

Terminators == {"\n", "\r"}

\* The positions of t that hold no whitespace.
Inked(t) == {i \in DOMAIN t : ~isspace(t[i])}

Least(S) == CHOOSE i \in S : \A j \in S : i <= j
Greatest(S) == CHOOSE i \in S : \A j \in S : j <= i

\* t without its leading and trailing whitespace.
Trimmed(t) ==
    IF Inked(t) = {} THEN <<>> ELSE SubSeq(t, Least(Inked(t)), Greatest(Inked(t)))

\* The positions of t that hold one of the characters cs.
Occurrences(t, cs) == {i \in DOMAIN t : t[i] \in cs}

\* The ordered rules of the line classifier, applied to the text t of a line.
Classify(t) ==
    LET body == SubSeq(t, IF Inked(t) = {} THEN Len(t) + 1 ELSE Least(Inked(t)), Len(t))
    IN
    IF body = <<>> THEN Parsed(INI_LINE_EMPTY, <<>>, <<>>, <<>>)
    ELSE IF body[1] \in {";", "#"} THEN Parsed(INI_LINE_COMMENT, <<>>, <<>>, <<>>)
    ELSE IF body[1] = "["
    THEN LET closes == Occurrences(body, {"]"})
             name   == Trimmed(SubSeq(body, 2, Least(closes) - 1))
         IN  IF closes = {} \/ name = <<>>
             THEN Parsed(INI_LINE_INVALID, <<>>, <<>>, <<>>)
             ELSE Parsed(INI_LINE_SECTION, name, <<>>, <<>>)
    ELSE LET seps  == Occurrences(body, {"=", ":"})
             key   == Trimmed(SubSeq(body, 1, Least(seps) - 1))
             value == Trimmed(SubSeq(body, Least(seps) + 1, Len(body)))
         IN  IF seps = {} \/ key = <<>>
             THEN Parsed(INI_LINE_INVALID, <<>>, <<>>, <<>>)
             ELSE Parsed(INI_LINE_KEY_VALUE, <<>>, key, value)

\* The positions of bytes where a logical line starts: a byte that is no
\* terminator, at the start of the buffer or after a terminator.
LineStarts(bytes) ==
    {i \in DOMAIN bytes : /\ bytes[i] \notin Terminators
                          /\ i = 1 \/ bytes[i - 1] \in Terminators}

\* The line starting at i: the bytes up to the next terminator or the end.
LineAt(bytes, i) ==
    LET last == Greatest({e \in i .. Len(bytes) :
                             \A j \in i .. e : bytes[j] \notin Terminators})
    IN  SubSeq(bytes, i, last)

\* A line as the line-length cap leaves it: its first cap - 1 bytes.
Capped(l) == SubSeq(l, 1, Min(Len(l), INI_MAX_LINE_LENGTH - 1))

RECURSIVE LinesFrom(_, _)
LinesFrom(bytes, starts) ==
    IF starts = {} THEN <<>>
    ELSE <<LineAt(bytes, Least(starts))>>
             \o LinesFrom(bytes, starts \ {Least(starts)})

\* The terminator-delimited lines of a buffer, in source order.
WholeLines(bytes) == LinesFrom(bytes, LineStarts(bytes))

\* The logical lines of a buffer: its lines, each truncated to the cap.
LogicalLines(bytes) ==
    [i \in DOMAIN WholeLines(bytes) |-> Capped(WholeLines(bytes)[i])]

\* The text of a line as a C string holds it: it ends before the first NUL.
TextOf(l) == SubSeq(l, 1, Least(Occurrences(l, {NUL}) \cup {Len(l) + 1}) - 1)

String(t) == [null |-> FALSE, str |-> t]

\* The handler calls a sequence of lines asks for, under the section name sec.
RECURSIVE EventsFor(_, _)
EventsFor(ls, sec) ==
    IF ls = <<>> THEN <<>>
    ELSE LET l == Head(ls)
             c == Classify(l)
         IN  IF c.type = INI_LINE_SECTION
             THEN <<Event(INI_EVENT_SECTION, String(c.section), NullString, NullString)>>
                      \o EventsFor(Tail(ls), c.section)
             ELSE IF c.type = INI_LINE_KEY_VALUE
             THEN <<Event(INI_EVENT_KEY_VALUE, String(sec), String(c.key), String(c.value))>>
                      \o EventsFor(Tail(ls), sec)
             ELSE IF c.type = INI_LINE_COMMENT
             THEN <<Event(INI_EVENT_COMMENT, NullString, NullString, String(l))>>
                      \o EventsFor(Tail(ls), sec)
             ELSE IF c.type = INI_LINE_INVALID
             THEN <<Event(INI_EVENT_ERROR, NullString, NullString, String(l))>>
                      \o EventsFor(Tail(ls), sec)
             ELSE EventsFor(Tail(ls), sec)

\* The handler calls made, without the answers.
EventsSeen == [i \in DOMAIN events |-> events[i].event]

TextsOf(ls) == [i \in DOMAIN ls |-> TextOf(ls[i])]

\* The stream has ended with every call of the handler answered true.
StreamedThrough == Streamed /\ Refusals = {}

\* C12: with a handler that always answers true, ini_parse_stream returns
\* true after one call per logical line that is not EMPTY, in source order,
\* with the event of the line's type, the unparsed line as the payload of
\* COMMENT and ERROR events and the last section name (or "") in KEY_VALUE
\* events; no call for an empty buffer. A line is handed over as a C string:
\* its text is what precedes a NUL byte in it.
C12_EventPerLine ==
    StreamedThrough =>
        /\ stream_ret = TRUE
        /\ EventsSeen = EventsFor(TextsOf(LogicalLines(content)), <<>>)
        /\ content = <<>> => EventsSeen = <<>>

\* A stream that ended after the handler saw a section, a key/value pair
\* under it, a key/value pair before any section, a comment and an error,
\* with a blank line in the buffer.
C12_Witness ==
    /\ StreamedThrough
    /\ stream_ret = TRUE
    /\ {INI_EVENT_SECTION, INI_EVENT_COMMENT, INI_EVENT_ERROR}
           \subseteq {EventsSeen[i].type : i \in DOMAIN EventsSeen}
    /\ \E i, j \in DOMAIN EventsSeen :
          /\ EventsSeen[i].type = INI_EVENT_KEY_VALUE
          /\ EventsSeen[i].section.str = <<>>
          /\ EventsSeen[j].type = INI_EVENT_KEY_VALUE
          /\ EventsSeen[j].section.str # <<>>
    /\ INI_LINE_EMPTY \in {stream_lines[i].type : i \in DOMAIN stream_lines}

----------------------------------------------------------------------------
(* A buffer built with \n line endings, then again with \r\n line endings.  *)

\* The buffer with every \n replaced by \r\n.
RECURSIVE CRLF(_)
CRLF(bytes) ==
    IF bytes = <<>> THEN <<>>
    ELSE (IF Head(bytes) = "\n" THEN <<"\r", "\n">> ELSE <<Head(bytes)>>)
             \o CRLF(Tail(bytes))

\* The buffer without its \r bytes.
WithoutCR(bytes) == SelectSeq(bytes, LAMBDA c : c # "\r")

LFPieces == {WithoutCR(p) : p \in Pieces} \cup { <<"\n", "\n">> }

LFBuffers == Concats(LFPieces, MaxLFPieces)

InitLineEndings == InitWith(LFBuffers) /\ ctx.content = NULL

\* The caller keeps the outcome of the build, converts the line endings of
\* the buffer and builds it again into a second, zeroed context.
ConvertLineEndings ==
    /\ pc = "done"
    /\ ~lf_build.made
    /\ lf_build' = [made |-> TRUE, ret |-> ret, oom |-> oom, document |-> Document]
    /\ content' = CRLF(content)
    /\ ctx' = [content |-> NULL, sections |-> NULL]
    /\ pc' = "idle"
    /\ ret' = FALSE
    /\ lines' = <<>>
    /\ oom' = FALSE
    /\ oob' = FALSE
    /\ UNCHANGED <<heap, freed, ptr, currentSection, has_valid_entries, cleanups, q>>
    /\ UNCHANGED <<streamVars, parsed>>

NextLineEndings ==
    \/ InitializeBegin
    \/ ScanLine
    \/ InitializeEnd
    \/ ConvertLineEndings

SpecLineEndings == InitLineEndings /\ [][NextLineEndings]_vars

\* The names, keys and values a Document stores.
StoredIn(kvs) == UNION {{kvs[j].key, kvs[j].value} : j \in DOMAIN kvs}

Stored(doc) ==
    {doc[i].name : i \in DOMAIN doc}
        \cup UNION {StoredIn(doc[i].keyValues) : i \in DOMAIN doc}

\* Both builds have returned, no allocation having failed.
BuiltTwice == pc = "done" /\ lf_build.made /\ ~oom /\ ~lf_build.oom

\* C13: a buffer with \n line endings and the same buffer with every \n
\* replaced by \r\n build with the same outcome and into the same Document,
\* and no stored name, key or value holds a \r.
C13_LineEndingIndependence ==
    /\ BuiltTwice =>
          /\ ret = lf_build.ret
          /\ Document = lf_build.document
    /\ pc = "done" => \A t \in Stored(Document) : "\r" \notin Range(t)

\* Both builds succeeded on a buffer of several lines, with two sections and
\* a key/value pair in the Document.
C13_Witness ==
    /\ BuiltTwice
    /\ ret
    /\ Cardinality(Occurrences(content, {"\r"})) >= 3
    /\ Len(Document) >= 2
    /\ \E i \in DOMAIN Document : Document[i].keyValues # <<>>

----------------------------------------------------------------------------
(* Lines longer than the cap.                                              *)

IsPrefix(a, b) == Len(a) <= Len(b) /\ a = SubSeq(b, 1, Len(a))

\* The line buffers ls hold, one for one, a prefix of each line of bytes
\* that reaches the cap when the line does.
Truncations(ls, bytes) ==
    LET whole == WholeLines(bytes)
    IN  /\ Len(ls) = Len(whole)
        /\ \A i \in DOMAIN ls :
              /\ IsPrefix(ls[i], whole[i])
              /\ Len(ls[i]) >= Min(Len(whole[i]), INI_MAX_LINE_LENGTH - 1)

\* The line buffers ini_initialize classified, those of no byte left out.
BuiltFrom ==
    LET inked == SelectSeq(lines, LAMBDA l : l.text # <<>>)
    IN  [i \in DOMAIN inked |-> inked[i].text]

\* The line buffers ini_parse_stream classified.
StreamedFrom == [i \in DOMAIN stream_lines |-> stream_lines[i].text]

\* ini_initialize has returned, no allocation having failed.
Scanned == pc = "done" /\ Len(content) > 0 /\ ~oom

\* A line of the buffer is longer than the cap.
LongLined(bytes) ==
    \E i \in DOMAIN WholeLines(bytes) : Len(WholeLines(bytes)[i]) >= INI_MAX_LINE_LENGTH

\* C14: a line longer than the cap is truncated, neither rejected nor split,
\* by ini_initialize and by ini_parse_stream: each classifies one prefix per
\* terminator-delimited line and nothing of the bytes after it.
C14_LongLinesTruncated ==
    /\ Scanned => Truncations(BuiltFrom, TextOf(content))
    /\ StreamedThrough => Truncations(StreamedFrom, content)

----------------------------------------------------------------------------
(* parseLine on its own.                                                   *)

\* The characters of the lines parseLine is given: whitespace, the brackets,
\* the separators, the comment markers and a letter.
LineChars == {" ", "[", "]", "=", ":", ";", "#", "a"}

RECURSIVE Strings(_, _)
Strings(cs, n) ==
    IF n = 0 THEN {<<>>}
    ELSE LET shorter == Strings(cs, n - 1)
         IN  shorter \cup {Append(t, c) : t \in shorter, c \in cs}

\* Lines that fill the line buffer: INI_MAX_LINE_LENGTH - 1 characters.
FullLines ==
    LET fill(n) == Rep("a", INI_MAX_LINE_LENGTH - 1 - n)
    IN  { <<"[">> \o fill(2) \o <<"]">>,
          <<"[">> \o fill(1),
          fill(2) \o <<"=", "a">>,
          <<"a", ":">> \o fill(2),
          <<" ">> \o fill(2) \o <<" ">>,
          fill(0) }

Lines == Strings(LineChars, MaxLineChars) \cup FullLines

InitParseLine == InitWith({<<>>}) /\ ctx.content = NULL

\* A call of parseLine with the three out-parameters zero-filled.
ParseLine ==
    /\ ~parsed.called
    /\ \E line \in Lines :
          parsed' = [called |-> TRUE, line |-> line, result |-> parseLine(line)]
    /\ UNCHANGED <<buildVars, streamVars, lf_build>>

NextParseLine == ParseLine

SpecParseLine == InitParseLine /\ [][NextParseLine]_vars

\* C15: parseLine classifies every line by the ordered rules: blank is EMPTY;
\* a first ';' or '#' is COMMENT; a first '[' is SECTION named by the trimmed
\* text before the first ']', INVALID without a ']' or with an empty name;
\* else the line is split at its first '=' or ':', INVALID when there is
\* none or the trimmed key is empty, else KEY_VALUE with the trimmed key and
\* the trimmed rest as the value, later separators and markers kept in it.
C15_ParseLineFollowsRules ==
    parsed.called => parsed.result = Classify(parsed.line)

\* parseLine was given a key/value line split at a ':' that an '=' follows.
C15_Witness ==
    /\ parsed.called
    /\ parsed.result.type = INI_LINE_KEY_VALUE
    /\ parsed.result.key = <<"a">>
    /\ parsed.result.value = <<"=">>
    /\ parsed.line[1] = " "

----------------------------------------------------------------------------
(* Whitespace.                                                             *)

\* t has no whitespace at either end.
Trim(t) == Trimmed(t) = t

\* The line with whitespace put before and after it.
Padded(t) == <<" ", "\t">> \o t \o <<" ">>

\* C16: in every Document built, each section name and each key is not
\* empty, and no name, key or value starts or ends with whitespace (a value
\* may be empty); whitespace around a line classified does not change what
\* the line adds to the Document.
C16_StoredFieldsTrimmed ==
    Built =>
        /\ \A i \in DOMAIN Document :
              /\ Document[i].name # <<>>
              /\ \A j \in DOMAIN Document[i].keyValues :
                    Document[i].keyValues[j].key # <<>>
        /\ \A t \in Stored(Document) : Trim(t)
        /\ \A i \in DOMAIN lines :
              parseLine(Padded(lines[i].text)) = parseLine(lines[i].text)

\* A Document built from a section line with whitespace around the brackets
\* and the name, and a key/value line with whitespace around the separator
\* and a blank value.
C16_Witness ==
    /\ Built
    /\ \E i, j \in DOMAIN lines :
          /\ i < j
          /\ lines[i].type = INI_LINE_SECTION
          /\ lines[i].text = <<" ", "[", " ", "t", " ", "]", " ">>
          /\ lines[j].type = INI_LINE_KEY_VALUE
          /\ lines[j].text = <<"j", " ", "=", " ">>
    /\ \E i \in DOMAIN Document :
          /\ Document[i].name = <<"t">>
          /\ [key |-> <<"j">>, value |-> <<>>] \in Range(Document[i].keyValues)

----------------------------------------------------------------------------
(* The line buffers.                                                       *)

\* The line buffers ini_initialize filled hold at most cap - 1 bytes of the
\* buffer, and none was written at an index of cap or more.
BuilderWithinLine ==
    /\ ~oob
    /\ \A i \in DOMAIN lines : Len(lines[i].text) <= INI_MAX_LINE_LENGTH - 1

\* The same of ini_parse_stream.
StreamWithinLine ==
    \A i \in DOMAIN stream_lines :
        /\ Len(stream_lines[i].text) <= INI_MAX_LINE_LENGTH - 1
        /\ stream_lines[i].terminatorIndex <= INI_MAX_LINE_LENGTH - 1

\* ini_initialize reads its copy of the buffer up to the NUL that ends it,
\* ini_parse_stream reads the buffer below content + length.
WithinBuffer ==
    /\ pc = "scan" => ptr \in 1 .. Len(heap[ctx.content].bytes)
    /\ Len(heap) > 0 => CStr(heap[1].bytes) = TextOf(content)
    /\ stream_pc = "scan" => stream_ptr \in 1 .. Len(content) + 1

\* C17: in ini_initialize and in ini_parse_stream every line copied into
\* line[] has at most cap - 1 bytes, so that its terminator fits; line[] is
\* never written at an index of cap or more, and no read goes past the
\* length of the buffer given.
C17_LineBufferBound ==
    /\ BuilderWithinLine
    /\ StreamWithinLine
    /\ WithinBuffer

----------------------------------------------------------------------------
(* The builder against the stream dispatcher.                              *)

\* The SECTION and KEY_VALUE classifications among ls, with what they hold.
Entries(ls) ==
    LET es == SelectSeq(ls, LAMBDA l : l.type \in {INI_LINE_SECTION, INI_LINE_KEY_VALUE})
    IN  [i \in DOMAIN es |-> Parsed(es[i].type, es[i].section, es[i].key, es[i].value)]

\* The Document a caller makes of the events: a Section per SECTION event,
\* each KEY_VALUE event under the last one, those with no section name dropped.
RECURSIVE Replay(_)
Replay(es) ==
    IF es = <<>> THEN <<>>
    ELSE LET before == Replay(SubSeq(es, 1, Len(es) - 1))
             e      == es[Len(es)]
             n      == Len(before)
         IN  IF e.type = INI_EVENT_SECTION
             THEN Append(before, [name |-> e.section.str, keyValues |-> <<>>])
             ELSE IF e.type = INI_EVENT_KEY_VALUE /\ e.section.str # <<>> /\ n > 0
             THEN [before EXCEPT ![n].keyValues =
                       Append(@, [key |-> e.key.str, value |-> e.value.str])]
             ELSE before

\* C18: ini_initialize and ini_parse_stream scan and classify alike: for
\* every buffer the SECTION and KEY_VALUE lines the stream reports to a
\* handler that always answers true, with their names, keys and values, are
\* those the build acts on, and the events replayed give the Document built.
C18_BuilderMatchesStream ==
    (Scanned /\ StreamedThrough) =>
        /\ Entries(lines) = Entries(stream_lines)
        /\ Replay(EventsSeen) = Document

====
